---- MODULE Spec2Model ----
(***************************************************************************)
(* Model of the grow-mls backend (src/backend/main.py, models.py): the     *)
(* relational store, the startup seeding, and the request handlers for     *)
(* lessons, completion and quizzes.                                        *)
(*                                                                         *)
(* A table is the sequence of its rows in insertion order; a row's id is   *)
(* its position (integer primary keys, no deletes).  A timestamp is the    *)
(* value of a logical clock that every stamped row advances.               *)
(* Text columns that hold JSON are sequences of one-character strings.     *)
(* A score is kept in hundredths of a percent (7000 is 70.0).              *)
(***************************************************************************)
EXTENDS Integers, Sequences, FiniteSets, TLC

VARIABLES
    db,        \* the store: one field per table of models.py
    resp,      \* the last response sent: [op, status, detail]
    startups,  \* how many times the process has run on_startup
    inflight   \* the concurrent specifications: the call each worker is inside

vars == <<db, resp, startups, inflight>>

----------------------------------------------------------------------------
(* Bounds of the model.                                                    *)

\* the seeded catalog is cut to its first NumCourses courses,
NumCourses == 2
\* each course to its first NumLessons lessons,
NumLessons == 2
\* and each quiz to its first NumQuestions questions
NumQuestions == 3
\* process starts (each runs on_startup once)
MaxStartups == 2
\* Progress rows the requests may insert
MaxProgress == 2
\* QuizAttempt rows the requests may insert
MaxAttempts == 3
\* concurrent request workers of SpecRace
NumWorkers == 2
\* lesson ids the concurrent requests of SpecRace complete
NumRaceLessons == 2
\* Progress and QuizAttempt rows a session of SpecLearn may insert
MaxLearnt == 2

----------------------------------------------------------------------------
(* Generic helpers.                                                        *)

Min(a, b) == IF a < b THEN a ELSE b

Range(s) == {s[i] : i \in DOMAIN s}

\* stable insertion of row r into a sequence sorted by key (a function on rows)
RECURSIVE InsertSorted(_, _, _)
InsertSorted(r, s, key) ==
    IF s = <<>> THEN <<r>>
    ELSE IF key[r] < key[Head(s)] THEN <<r>> \o s
    ELSE <<Head(s)>> \o InsertSorted(r, Tail(s), key)

\* ORDER BY key ascending; rows with equal keys stay in table order
RECURSIVE SortBy(_, _)
SortBy(s, key) ==
    IF s = <<>> THEN <<>>
    ELSE InsertSorted(s[Len(s)], SortBy(SubSeq(s, 1, Len(s) - 1), key), key)

\* All sequences over S of length 0..n
SeqsUpTo(S, n) == UNION {[1..k -> S] : k \in 0..n}

----------------------------------------------------------------------------
(* json.dumps / json.loads on a list of small integers.                    *)

Digit == <<"0", "1", "2", "3", "4", "5", "6", "7", "8", "9">>

RECURSIVE IntText(_)
IntText(n) ==
    IF n < 0 THEN <<"-">> \o IntText(-n)
    ELSE IF n < 10 THEN <<Digit[n + 1]>>
    ELSE IntText(n \div 10) \o <<Digit[(n % 10) + 1]>>

RECURSIVE JoinInts(_)
JoinInts(xs) ==
    IF xs = <<>> THEN <<>>
    ELSE IF Len(xs) = 1 THEN IntText(xs[1])
    ELSE IntText(xs[1]) \o <<",", " ">> \o JoinInts(Tail(xs))

\* json.dumps([1, 2]) is the text "[1, 2]"
json_dumps(xs) == <<"[">> \o JoinInts(xs) \o <<"]">>

DigitValue(c) == CHOOSE k \in 0..9 : Digit[k + 1] = c

IsDigit(c) == \E k \in 1..10 : Digit[k] = c

\* the text read left to right: acc is the list so far, cur the number being
\* read (-1: none), sign its sign
RECURSIVE ParseInts(_, _, _, _)
ParseInts(t, acc, cur, sign) ==
    IF t = <<>> THEN acc
    ELSE LET c == Head(t) IN
         IF c = "-" THEN ParseInts(Tail(t), acc, cur, -1)
         ELSE IF IsDigit(c)
              THEN ParseInts(Tail(t), acc,
                             (IF cur < 0 THEN 0 ELSE cur * 10) + DigitValue(c), sign)
         ELSE IF c = "," \/ c = "]"
              THEN ParseInts(Tail(t),
                             IF cur < 0 THEN acc ELSE Append(acc, sign * cur),
                             -1, 1)
         ELSE ParseInts(Tail(t), acc, cur, sign)

json_loads(t) == ParseInts(t, <<>>, -1, 1)

----------------------------------------------------------------------------
(* The seeded catalog (seed_data's courses_data): per course the premium   *)
(* flag, the price, the number of lessons, and the quiz's pass_percent and *)
(* the correct_index of its ten questions.                                 *)

courses_data == <<
    [is_premium |-> FALSE, price_cents |-> 0,    lessons |-> 5, pass_percent |-> 70,
     correct_index |-> <<1, 2, 1, 0, 2, 2, 1, 1, 1, 2>>],
    [is_premium |-> FALSE, price_cents |-> 0,    lessons |-> 6, pass_percent |-> 70,
     correct_index |-> <<2, 1, 1, 2, 1, 1, 2, 1, 1, 2>>],
    [is_premium |-> TRUE,  price_cents |-> 5000, lessons |-> 7, pass_percent |-> 75,
     correct_index |-> <<2, 1, 2, 1, 1, 1, 2, 1, 1, 1>>],
    [is_premium |-> TRUE,  price_cents |-> 1000, lessons |-> 7, pass_percent |-> 75,
     correct_index |-> <<1, 1, 1, 0, 1, 1, 1, 2, 0, 1>>],
    [is_premium |-> TRUE,  price_cents |-> 750,  lessons |-> 7, pass_percent |-> 70,
     correct_index |-> <<1, 1, 1, 1, 1, 1, 0, 0, 1, 2>>],
    [is_premium |-> TRUE,  price_cents |-> 1200, lessons |-> 7, pass_percent |-> 70,
     correct_index |-> <<0, 1, 0, 1, 0, 0, 1, 1, 1, 1>>],
    [is_premium |-> FALSE, price_cents |-> 0,    lessons |-> 7, pass_percent |-> 70,
     correct_index |-> <<1, 1, 2, 1, 2, 2, 2, 1, 1, 1>>],
    [is_premium |-> TRUE,  price_cents |-> 900,  lessons |-> 6, pass_percent |-> 75,
     correct_index |-> <<1, 1, 0, 1, 2, 1, 1, 1, 1, 1>>] >>

\* the catalog as the model seeds it: cut to the bounds
CatCourses == 1..Min(NumCourses, Len(courses_data))

CatLessons(c) == 1..Min(NumLessons, courses_data[c].lessons)

CatQuestions(c) == 1..Min(NumQuestions, Len(courses_data[c].correct_index))

\* every question of courses_data has four choices, here the tokens 0..3
NumChoices == 4

DemoEmail == "demo@test.com"


----------------------------------------------------------------------------
(* The store.  An Optional column is <<>> (None) or <<value>>.             *)

\* a database in which no table has been created yet
EmptyDb ==
    [tables |-> FALSE,
     user |-> <<>>, course |-> <<>>, lesson |-> <<>>, quiz |-> <<>>,
     question |-> <<>>, progress |-> <<>>, quizattempt |-> <<>>]

\* as init_db, but the tables are created anew
init_db_Recreate(d, ok) ==
    IF ok
    THEN [tables |-> TRUE,
          user |-> <<>>, course |-> <<>>, lesson |-> <<>>, quiz |-> <<>>,
          question |-> <<>>, progress |-> <<>>, quizattempt |-> <<>>]
    ELSE d

\* init_db: SQLModel.metadata.create_all(engine) when it succeeds (ok), the
\* database as it was when it raises
init_db(d, ok) == IF ok THEN [d EXCEPT !.tables = TRUE] ELSE d

\* datetime.utcnow(): the logical time, one tick per Progress or QuizAttempt
\* row stamped so far (User.created_at, which nothing reads, is left out)
utcnow(d) == Len(d.progress) + Len(d.quizattempt) + 1

\* session.add(row); session.commit(): the row gets the next id of its table
NextId(table) == Len(table) + 1

\* as Get, but the id is not used to pick the row
Get_AnyRow(table, id) == IF table # <<>> THEN <<table[1]>> ELSE <<>>

\* session.get(Model, id): <<row>>, or <<>> when there is none
Get(table, id) == IF id \in DOMAIN table THEN <<table[id]>> ELSE <<>>

UserByEmail(d, email) == SelectSeq(d.user, LAMBDA u : u.email = email)

NewUser(d, email, password, name, sub) ==
    [id |-> NextId(d.user), email |-> email, password_hash |-> password,
     name |-> name, is_subscriber |-> sub]

\* as get_current_user, but the current user is the account created last,
\* as if the last signup had logged the caller in
get_current_user_Latest(d) ==
    IF d.user # <<>> THEN [db |-> d, user |-> d.user[Len(d.user)]]
    ELSE LET u == [id |-> Len(d.user) + 1, email |-> "demo@test.com",
                   password_hash |-> "nopass", name |-> "Demo User",
                   is_subscriber |-> TRUE] IN
         [db |-> [d EXCEPT !.user = Append(@, u)], user |-> u]

\* get_current_user: the demo@test.com row, created as a subscriber when missing
get_current_user(d) ==
    LET found == UserByEmail(d, DemoEmail) IN
    IF found # <<>> THEN [db |-> d, user |-> found[1]]
    ELSE LET u == NewUser(d, DemoEmail, "nopass", "Demo User", TRUE) IN
         [db |-> [d EXCEPT !.user = Append(@, u)], user |-> u]

----------------------------------------------------------------------------
(* seed_data.  Its writes reach the store at its commits: the demo user,   *)
(* then per course (1) the course with its lessons, (2) the quiz, (3) the  *)
(* quiz's questions.  A run that raises keeps what was committed before.   *)

RECURSIVE CourseSteps(_)
CourseSteps(c) ==
    IF c = 0 THEN <<>>
    ELSE CourseSteps(c - 1) \o
         <<[kind |-> "lessons", c |-> c], [kind |-> "quiz", c |-> c],
           [kind |-> "questions", c |-> c]>>

SeedSteps == <<[kind |-> "user", c |-> 0]>> \o CourseSteps(Cardinality(CatCourses))

SeedUser(d) ==
    IF UserByEmail(d, DemoEmail) # <<>> THEN d
    ELSE [d EXCEPT !.user = Append(@, NewUser(d, DemoEmail, "nopass", "Demo User", TRUE))]

\* the course row and its lessons, order_index counting from 1
SeedLessons(d, c) ==
    LET cid == NextId(d.course)
        first == Len(d.lesson)
        n == Cardinality(CatLessons(c)) IN
    [d EXCEPT
       !.course = Append(@, [id |-> cid, title |-> c,
                             is_premium |-> courses_data[c].is_premium,
                             price_cents |-> courses_data[c].price_cents]),
       !.lesson = @ \o [i \in 1..n |->
                          [id |-> first + i, course_id |-> cid, title |-> <<c, i>>,
                           content |-> <<c, i>>, order_index |-> i]]]

\* the quiz of the course just stored, linked to that course's first lesson
SeedQuiz(d, c) ==
    LET cid == Len(d.course)
        lesson_objs == SelectSeq(d.lesson, LAMBDA l : l.course_id = cid) IN
    [d EXCEPT
       !.quiz = Append(@, [id |-> NextId(d.quiz), course_id |-> cid,
                           lesson_id |-> IF lesson_objs # <<>>
                                         THEN <<lesson_objs[1].id>> ELSE <<>>,
                           title |-> c,
                           pass_percent |-> courses_data[c].pass_percent])]

SeedQuestions(d, c) ==
    LET qid == Len(d.quiz)
        first == Len(d.question)
        n == Cardinality(CatQuestions(c)) IN
    [d EXCEPT
       !.question = @ \o [i \in 1..n |->
                            [id |-> first + i, quiz_id |-> qid, text |-> <<c, i>>,
                             choices |-> json_dumps([k \in 1..NumChoices |-> k - 1]),
                             correct_index |-> courses_data[c].correct_index[i]]]]

ApplySeedStep(d, st) ==
    CASE st.kind = "user" -> SeedUser(d)
      [] st.kind = "lessons" -> SeedLessons(d, st.c)
      [] st.kind = "quiz" -> SeedQuiz(d, st.c)
      [] st.kind = "questions" -> SeedQuestions(d, st.c)

RECURSIVE RunSeedSteps(_, _)
RunSeedSteps(d, n) ==
    IF n = 0 THEN d ELSE ApplySeedStep(RunSeedSteps(d, n - 1), SeedSteps[n])

\* as seed_data, but without the check for a stored course
seed_data_Unguarded(d, done) ==
    IF ~d.tables THEN d ELSE RunSeedSteps(d, done)

\* seed_data when its first `done` commits succeed and the next step raises
\* (done = Len(SeedSteps): the run completes); without tables its first
\* select raises
seed_data(d, done) ==
    IF ~d.tables THEN d
    ELSE IF d.course # <<>> THEN d ELSE RunSeedSteps(d, done)


----------------------------------------------------------------------------
(* The request handlers.  Each is a function of the store and the request  *)
(* giving the store afterwards, the HTTP status and the response body.     *)
(* FastAPI resolves get_current_user before the handler's body runs.       *)

\* a 200 response with its JSON body
Ok(d, body) == [db |-> d, status |-> 200, detail |-> "ok", body |-> body]

\* a 200 response {"message": msg}
Message(d, msg) ==
    [db |-> d, status |-> 200, detail |-> msg, body |-> [message |-> msg]]

\* raise HTTPException(status_code, detail)
Raise(d, status, detail) ==
    [db |-> d, status |-> status, detail |-> detail, body |-> <<>>]

\* the response to a request whose first statement finds no table: the
\* OperationalError is not handled
NoTables(d) == Raise(d, 500, "OperationalError")

\* POST /auth/signup
auth_signup(d, email, password) ==
    IF ~d.tables THEN NoTables(d) ELSE
    IF UserByEmail(d, email) # <<>>
    THEN Raise(d, 400, "Email already registered")
    ELSE LET u == NewUser(d, email, password, "", FALSE) IN
         Ok([d EXCEPT !.user = Append(@, u)], [access_token |-> u.id])

\* select(Lesson).where(course_id == c).order_by(order_index)
LessonsOfCourse(d, course_id) ==
    LET rows == SelectSeq(d.lesson, LAMBDA l : l.course_id = course_id) IN
    SortBy(rows, [r \in Range(rows) |-> r.order_index])

\* select(Question).where(quiz_id == q).order_by(id)
QuestionsOfQuiz(d, quiz_id) ==
    LET rows == SelectSeq(d.question, LAMBDA q : q.quiz_id = quiz_id) IN
    SortBy(rows, [r \in Range(rows) |-> r.id])

LessonForbidden_LastLesson(user, lesson, all_lessons) ==
    ~user.is_subscriber /\ all_lessons # <<>>
        /\ lesson.id # all_lessons[Len(all_lessons)].id

\* as LessonForbidden, but whoever the user is
LessonForbidden_Everyone(user, lesson, all_lessons) ==
    all_lessons # <<>> /\ lesson.id # all_lessons[1].id

\* the subscription check of get_lesson: a non-subscriber is refused every
\* lesson but the first of the ordered list
LessonForbidden(user, lesson, all_lessons) ==
    ~user.is_subscriber /\ all_lessons # <<>> /\ lesson.id # all_lessons[1].id

\* as get_lesson, but the subscription check comes before the lookup
get_lesson_GateFirst(d, lesson_id) ==
    LET cu == get_current_user(d)
        found == Get(cu.db.lesson, lesson_id) IN
    IF ~cu.user.is_subscriber
           /\ (found = <<>> \/ LessonForbidden(cu.user, found[1],
                                   LessonsOfCourse(cu.db, found[1].course_id)))
    THEN Raise(cu.db, 403, "Subscribe to access this lesson")
    ELSE IF found = <<>> THEN Raise(cu.db, 404, "Lesson not found")
    ELSE Ok(cu.db,
            [id |-> found[1].id, title |-> found[1].title,
             content |-> found[1].content, order_index |-> found[1].order_index,
             quiz_id |-> <<>>])

\* as get_lesson, but a lesson that is read is also recorded as completed
get_lesson_Completes(d, lesson_id) ==
    IF ~d.tables THEN NoTables(d) ELSE
    LET cu == get_current_user(d)
        found == Get(cu.db.lesson, lesson_id) IN
    IF found = <<>> THEN Raise(cu.db, 404, "Lesson not found")
    ELSE
    LET lesson == found[1]
        all_lessons == LessonsOfCourse(cu.db, lesson.course_id)
        quiz_obj == SelectSeq(cu.db.quiz, LAMBDA q : q.lesson_id = <<lesson.id>>)
        row == [id |-> Len(cu.db.progress) + 1, user_id |-> cu.user.id,
                lesson_id |-> lesson.id, completed_at |-> utcnow(cu.db)] IN
    IF LessonForbidden(cu.user, lesson, all_lessons)
    THEN Raise(cu.db, 403, "Subscribe to access this lesson")
    ELSE Ok([cu.db EXCEPT !.progress = Append(@, row)],
            [id |-> lesson.id, title |-> lesson.title, content |-> lesson.content,
                order_index |-> lesson.order_index,
                quiz_id |-> IF quiz_obj # <<>> THEN <<quiz_obj[1].id>> ELSE <<>>])

\* GET /lessons/{lesson_id}
get_lesson(d, lesson_id) ==
    IF ~d.tables THEN NoTables(d) ELSE
    LET cu == get_current_user(d)
        found == Get(cu.db.lesson, lesson_id) IN
    IF found = <<>> THEN Raise(cu.db, 404, "Lesson not found")
    ELSE
    LET lesson == found[1]
        all_lessons == LessonsOfCourse(cu.db, lesson.course_id)
        quiz_obj == SelectSeq(cu.db.quiz, LAMBDA q : q.lesson_id = <<lesson.id>>) IN
    IF LessonForbidden(cu.user, lesson, all_lessons)
    THEN Raise(cu.db, 403, "Subscribe to access this lesson")
    ELSE Ok(cu.db,
            [id |-> lesson.id, title |-> lesson.title, content |-> lesson.content,
                order_index |-> lesson.order_index,
                quiz_id |-> IF quiz_obj # <<>> THEN <<quiz_obj[1].id>> ELSE <<>>])

\* select(Progress).where(user_id == uid, lesson_id == lesson_id)
ProgressOf(d, uid, lesson_id) ==
    SelectSeq(d.progress, LAMBDA p : p.user_id = uid /\ p.lesson_id = lesson_id)

\* session.add(Progress(user_id=uid, lesson_id=lesson_id)); session.commit()
InsertProgress(d, uid, lesson_id) ==
    [d EXCEPT !.progress =
        Append(@, [id |-> NextId(d.progress), user_id |-> uid,
                   lesson_id |-> lesson_id, completed_at |-> utcnow(d)])]

\* as complete_lesson, but a repeated call stamps the stored row again
complete_lesson_Restamp(d, lesson_id) ==
    LET cu == get_current_user(d)
        uid == cu.user.id IN
    IF ProgressOf(cu.db, uid, lesson_id) # <<>>
    THEN Message([cu.db EXCEPT !.progress =
                     [i \in DOMAIN @ |->
                        IF @[i].user_id = uid /\ @[i].lesson_id = lesson_id
                        THEN [@[i] EXCEPT !.completed_at = utcnow(cu.db)]
                        ELSE @[i]]],
                 "already completed")
    ELSE Message(InsertProgress(cu.db, uid, lesson_id), "completed")

\* as complete_lesson, but only for a stored lesson
complete_lesson_Gated(d, lesson_id) ==
    LET cu == get_current_user(d)
        uid == cu.user.id IN
    IF Get(cu.db.lesson, lesson_id) = <<>>
    THEN Raise(cu.db, 404, "Lesson not found")
    ELSE IF ProgressOf(cu.db, uid, lesson_id) # <<>>
    THEN Message(cu.db, "already completed")
    ELSE Message(InsertProgress(cu.db, uid, lesson_id), "completed")

\* POST /lessons/{lesson_id}/complete
complete_lesson(d, lesson_id) ==
    IF ~d.tables THEN NoTables(d) ELSE
    LET cu == get_current_user(d)
        uid == cu.user.id IN
    IF ProgressOf(cu.db, uid, lesson_id) # <<>>
    THEN Message(cu.db, "already completed")
    ELSE Message(InsertProgress(cu.db, uid, lesson_id), "completed")

QuizForbidden_Never(user) == FALSE

\* the subscription check of get_quiz
QuizForbidden(user) == ~user.is_subscriber

\* as get_quiz, but each question is returned as it is stored
get_quiz_WholeRows(d, quiz_id) ==
    LET cu == get_current_user(d)
        found == Get(cu.db.quiz, quiz_id) IN
    IF found = <<>> THEN Raise(cu.db, 404, "Quiz not found")
    ELSE IF QuizForbidden(cu.user)
    THEN Raise(cu.db, 403, "Subscribe to access quizzes")
    ELSE Ok(cu.db,
            [id |-> found[1].id, title |-> found[1].title,
             pass_percent |-> found[1].pass_percent,
             questions |-> QuestionsOfQuiz(cu.db, quiz_id),
             lesson_id |-> found[1].lesson_id])

\* GET /quizzes/{quiz_id}
get_quiz(d, quiz_id) ==
    IF ~d.tables THEN NoTables(d) ELSE
    LET cu == get_current_user(d)
        found == Get(cu.db.quiz, quiz_id) IN
    IF found = <<>> THEN Raise(cu.db, 404, "Quiz not found")
    ELSE IF QuizForbidden(cu.user)
    THEN Raise(cu.db, 403, "Subscribe to access quizzes")
    ELSE
    LET quiz == found[1]
        questions == QuestionsOfQuiz(cu.db, quiz_id) IN
    Ok(cu.db,
       [id |-> quiz.id, title |-> quiz.title, pass_percent |-> quiz.pass_percent,
           questions |-> [i \in DOMAIN questions |->
                            [id |-> questions[i].id, text |-> questions[i].text,
                             choices |-> IF questions[i].choices # <<>>
                                         THEN json_loads(questions[i].choices)
                                         ELSE <<>>]],
           lesson_id |-> quiz.lesson_id])

\* sum(1 for q, ans in zip(questions, answers) if q.correct_index == ans)
RECURSIVE CountCorrect(_, _)
CountCorrect(questions, answers) ==
    IF questions = <<>> \/ answers = <<>> THEN 0
    ELSE (IF Head(questions).correct_index = Head(answers) THEN 1 ELSE 0)
         + CountCorrect(Tail(questions), Tail(answers))

\* as ScorePercent, but cut after the second decimal instead of rounded
ScorePercent_Truncate(correct, total) == (10000 * correct) \div total

\* round((correct / total) * 100, 2) in hundredths: the integer nearest to
\* 10000 * correct / total, a tie going to the even one (total >= 1; the
\* float result is this value for every total below 160)
ScorePercent(correct, total) ==
    LET q == (10000 * correct) \div total
        r == (10000 * correct) % total IN
    IF 2 * r > total \/ (2 * r = total /\ q % 2 = 1) THEN q + 1 ELSE q

Passed_Strict(score, pass_percent) == score > 100 * pass_percent

\* score_percent >= quiz.pass_percent
Passed(score, pass_percent) == score >= 100 * pass_percent

CountMismatch_ShortOnly(answers, questions) == Len(answers) < Len(questions)

\* len(submission.answers) != len(questions)
CountMismatch(answers, questions) == Len(answers) # Len(questions)

\* as grade, but passed compares the fraction correct / total, not yet
\* multiplied by 100, with pass_percent
grade_PassOnFraction(questions, pass_percent, answers) ==
    LET correct == CountCorrect(questions, answers)
        score_percent == ScorePercent(correct, Len(questions)) IN
    [correct |-> correct, score |-> score_percent,
     passed |-> Passed(score_percent \div 100, pass_percent)]

\* the grading of submit_quiz: correct, score_percent and passed
grade(questions, pass_percent, answers) ==
    LET correct == CountCorrect(questions, answers)
        score_percent == ScorePercent(correct, Len(questions)) IN
    [correct |-> correct, score |-> score_percent,
     passed |-> Passed(score_percent, pass_percent)]

\* as InsertAttempt, but the user's earlier attempt at the quiz is overwritten
InsertAttempt_Upsert(d, attempt) ==
    LET old == {i \in DOMAIN d.quizattempt :
                   /\ d.quizattempt[i].user_id = attempt.user_id
                   /\ d.quizattempt[i].quiz_id = attempt.quiz_id} IN
    IF old = {} THEN [d EXCEPT !.quizattempt = Append(@, attempt)]
    ELSE LET i == CHOOSE j \in old : TRUE IN
         [d EXCEPT !.quizattempt[i] = [attempt EXCEPT !.id = i]]

\* session.add(attempt); session.commit()
InsertAttempt(d, attempt) == [d EXCEPT !.quizattempt = Append(@, attempt)]

\* as submit_quiz, but a passed attempt at a quiz that belongs to a lesson
\* records the lesson as completed
submit_quiz_CompletesLesson(d, quiz_id, answers) ==
    IF ~d.tables THEN NoTables(d) ELSE
    LET cu == get_current_user(d)
        found == Get(cu.db.quiz, quiz_id) IN
    IF found = <<>> THEN Raise(cu.db, 404, "Quiz not found")
    ELSE
    LET quiz == found[1]
        questions == QuestionsOfQuiz(cu.db, quiz_id) IN
    IF CountMismatch(answers, questions)
    THEN Raise(cu.db, 400, "Answer count mismatch")
    ELSE IF Len(questions) = 0
    THEN Raise(cu.db, 500, "ZeroDivisionError")
    ELSE
    LET g == grade(questions, quiz.pass_percent, answers)
        attempt == [id |-> NextId(cu.db.quizattempt), user_id |-> cu.user.id,
                    quiz_id |-> quiz_id, score |-> g.score, passed |-> g.passed,
                    answers |-> json_dumps(answers),
                    attempted_at |-> utcnow(cu.db)]
        stored == InsertAttempt(cu.db, attempt) IN
    Ok(IF g.passed /\ quiz.lesson_id # <<>>
          /\ ProgressOf(stored, cu.user.id, quiz.lesson_id[1]) = <<>>
       THEN InsertProgress(stored, cu.user.id, quiz.lesson_id[1])
       ELSE stored,
       [score |-> g.score, passed |-> g.passed, correct |-> g.correct,
        total |-> Len(questions)])

\* POST /quizzes/{quiz_id}/submit
submit_quiz(d, quiz_id, answers) ==
    IF ~d.tables THEN NoTables(d) ELSE
    LET cu == get_current_user(d)
        found == Get(cu.db.quiz, quiz_id) IN
    IF found = <<>> THEN Raise(cu.db, 404, "Quiz not found")
    ELSE
    LET quiz == found[1]
        questions == QuestionsOfQuiz(cu.db, quiz_id) IN
    IF CountMismatch(answers, questions)
    THEN Raise(cu.db, 400, "Answer count mismatch")
    ELSE IF Len(questions) = 0
    THEN Raise(cu.db, 500, "ZeroDivisionError")  \* correct / len(questions) raises
    ELSE
    LET g == grade(questions, quiz.pass_percent, answers)
        attempt == [id |-> NextId(cu.db.quizattempt), user_id |-> cu.user.id,
                    quiz_id |-> quiz_id, score |-> g.score, passed |-> g.passed,
                    answers |-> json_dumps(answers),
                    attempted_at |-> utcnow(cu.db)] IN
    Ok(InsertAttempt(cu.db, attempt),
       [score |-> g.score, passed |-> g.passed, correct |-> g.correct,
        total |-> Len(questions)])

\* POST /auth/login
auth_login(d, username, password) ==
    IF ~d.tables THEN NoTables(d) ELSE
    LET found == UserByEmail(d, username) IN
    IF found = <<>> \/ found[1].password_hash # password
    THEN Raise(d, 401, "Incorrect username or password")
    ELSE Ok(d, [access_token |-> found[1].id])

\* GET /users/me
read_me(d) ==
    IF ~d.tables THEN NoTables(d) ELSE
    LET cu == get_current_user(d) IN
    Ok(cu.db, [id |-> cu.user.id, email |-> cu.user.email, name |-> cu.user.name,
               is_subscriber |-> cu.user.is_subscriber])

\* as subscribe, but the endpoint still makes the current user a subscriber
subscribe_Flips(d) ==
    IF ~d.tables THEN NoTables(d) ELSE
    LET cu == get_current_user(d) IN
    Message([cu.db EXCEPT !.user[cu.user.id].is_subscriber = TRUE],
            "subscriptions removed in this build")

\* POST /subscribe
subscribe(d) ==
    IF ~d.tables THEN NoTables(d) ELSE
    LET cu == get_current_user(d) IN
    Message(cu.db, "subscriptions removed in this build")

\* as list_courses, but an empty catalog is seeded when it is first listed
list_courses_Seeds(d) ==
    IF ~d.tables THEN NoTables(d) ELSE
    LET cu == get_current_user(d)
        seeded == seed_data(cu.db, Len(SeedSteps)) IN
    Ok(seeded, seeded.course)

\* GET /courses
list_courses(d) ==
    IF ~d.tables THEN NoTables(d) ELSE
    LET cu == get_current_user(d) IN Ok(cu.db, cu.db.course)

\* GET /courses/{course_id}
get_course(d, course_id) ==
    IF ~d.tables THEN NoTables(d) ELSE
    LET cu == get_current_user(d)
        found == Get(cu.db.course, course_id) IN
    IF found = <<>> THEN Raise(cu.db, 404, "Course not found")
    ELSE Ok(cu.db, found[1])

\* as list_lessons_for_course, but the map of completions is looked up by
\* the lesson's order_index instead of its id
list_lessons_for_course_ByOrderIndex(d, course_id) ==
    IF ~d.tables THEN NoTables(d) ELSE
    LET cu == get_current_user(d) IN
    IF Get(cu.db.course, course_id) = <<>>
    THEN Raise(cu.db, 404, "Course not found")
    ELSE
    LET lessons == LessonsOfCourse(cu.db, course_id)
        completed_rows == SelectSeq(cu.db.progress,
                                    LAMBDA p : p.user_id = cu.user.id)
        Last(lid) == CHOOSE i \in DOMAIN completed_rows :
                        /\ completed_rows[i].lesson_id = lid
                        /\ \A j \in DOMAIN completed_rows :
                              completed_rows[j].lesson_id = lid => j <= i
        Done(lid) == \E i \in DOMAIN completed_rows :
                        completed_rows[i].lesson_id = lid IN
    Ok(cu.db,
       [i \in DOMAIN lessons |->
          [id |-> lessons[i].id, title |-> lessons[i].title,
           content |-> lessons[i].content,
           order_index |-> lessons[i].order_index,
           completed |-> Done(lessons[i].order_index),
           completed_at |-> IF Done(lessons[i].order_index)
                            THEN <<completed_rows[Last(lessons[i].order_index)].completed_at>>
                            ELSE <<>>]])

\* GET /courses/{course_id}/lessons
list_lessons_for_course(d, course_id) ==
    IF ~d.tables THEN NoTables(d) ELSE
    LET cu == get_current_user(d) IN
    IF Get(cu.db.course, course_id) = <<>>
    THEN Raise(cu.db, 404, "Course not found")
    ELSE
    LET lessons == LessonsOfCourse(cu.db, course_id)
        completed_rows == SelectSeq(cu.db.progress,
                                    LAMBDA p : p.user_id = cu.user.id)
        \* the dict keeps, for a lesson id, the last row that has it
        Last(lid) == CHOOSE i \in DOMAIN completed_rows :
                        /\ completed_rows[i].lesson_id = lid
                        /\ \A j \in DOMAIN completed_rows :
                              completed_rows[j].lesson_id = lid => j <= i
        Done(lid) == \E i \in DOMAIN completed_rows :
                        completed_rows[i].lesson_id = lid IN
    Ok(cu.db,
       [i \in DOMAIN lessons |->
          [id |-> lessons[i].id, title |-> lessons[i].title,
           content |-> lessons[i].content,
           order_index |-> lessons[i].order_index,
           completed |-> Done(lessons[i].id),
           completed_at |-> IF Done(lessons[i].id)
                            THEN <<completed_rows[Last(lessons[i].id)].completed_at>>
                            ELSE <<>>]])

\* GET /users/me/progress
my_progress(d) ==
    IF ~d.tables THEN NoTables(d) ELSE
    LET cu == get_current_user(d)
        mine == SelectSeq(cu.db.progress, LAMBDA p : p.user_id = cu.user.id)
        rows == SelectSeq(cu.db.quizattempt, LAMBDA a : a.user_id = cu.user.id)
        attempts == SortBy(rows, [r \in Range(rows) |-> 0 - r.attempted_at]) IN
    Ok(cu.db,
       [lessons_completed |->
            [i \in DOMAIN mine |-> [lesson_id |-> mine[i].lesson_id,
                                    completed_at |-> mine[i].completed_at]],
        quiz_attempts |->
            [i \in DOMAIN attempts |->
                [id |-> attempts[i].id, quiz_id |-> attempts[i].quiz_id,
                 score |-> attempts[i].score, passed |-> attempts[i].passed,
                 answers |-> json_loads(attempts[i].answers),
                 attempted_at |-> attempts[i].attempted_at]]])

----------------------------------------------------------------------------
(* The requests the model sends.                                           *)

\* every lesson id the seeded catalog can store, and one that is never stored
LessonIds == 1..(Cardinality(CatCourses) * NumLessons + 1)

\* every quiz id the seeded catalog can store, and one that is never stored
QuizIds == 1..(Cardinality(CatCourses) + 1)

\* every course id the seeded catalog can store, and one that is never stored
CourseIds == 1..(Cardinality(CatCourses) + 1)

AnswerVals == {1, 2}

\* every answer list up to one longer than a quiz: the lists the properties
\* range over
AnswerLists == SeqsUpTo(AnswerVals, NumQuestions + 1)

\* the lists the model submits: 1, 2, 1, ... of a quiz's length, one shorter
\* and one longer
Alternating(k) == [i \in 1..k |-> IF i % 2 = 1 THEN 1 ELSE 2]

SubmittedLists ==
    {Alternating(k) : k \in (NumQuestions - 1)..(NumQuestions + 1)}

\* the lesson ids the model completes: complete_lesson does not look the
\* lesson up, so these are the first course's and the one after them
CompletedIds == 1..(NumLessons + 1)

OtherEmail == "ann@example.com"

Emails == {DemoEmail, OtherEmail}

Workers == 1..NumWorkers

Idle == [op |-> "idle"]

\* what the state keeps of a response: the status, and the message of an
\* error or of complete_lesson ("ok" for a payload)
Response(op, r) ==
    [op |-> op, status |-> r.status, detail |-> r.detail]

----------------------------------------------------------------------------
(* The sequential actions: one request at a time, each handler run from    *)
(* its first line to its response.                                         *)

Init ==
    /\ db = EmptyDb
    /\ resp = [op |-> "none", status |-> 0, detail |-> ""]
    /\ startups = 0
    /\ inflight = [w \in Workers |-> Idle]

\* a process start: init_db, then seed_data, whose exception is caught
on_startup ==
    /\ startups < MaxStartups
    /\ \A w \in Workers : inflight[w] = Idle
    /\ \E ok \in BOOLEAN, done \in 0..Len(SeedSteps) :
          db' = seed_data(init_db(db, ok), done)
    /\ resp' = [op |-> "on_startup", status |-> 0, detail |-> ""]
    /\ startups' = startups + 1
    /\ UNCHANGED inflight

\* the response r to a request is sent and its writes are in the store
Serve(op, r) ==
    /\ startups >= 1
    /\ Len(r.db.progress) <= MaxProgress
    /\ Len(r.db.quizattempt) <= MaxAttempts
    /\ db' = r.db
    /\ resp' = Response(op, r)
    /\ UNCHANGED <<startups, inflight>>

Signup(emails) ==
    \E email \in emails : Serve("auth_signup", auth_signup(db, email, "pw"))

GetLesson ==
    \E l \in LessonIds : Serve("get_lesson", get_lesson(db, l))

CompleteLesson ==
    \E l \in CompletedIds : Serve("complete_lesson", complete_lesson(db, l))

GetQuiz ==
    \E q \in QuizIds : Serve("get_quiz", get_quiz(db, q))

ListLessons ==
    \E c \in CourseIds :
        Serve("list_lessons_for_course", list_lessons_for_course(db, c))

SubmitQuiz ==
    \E q \in QuizIds, a \in SubmittedLists :
        Serve("submit_quiz", submit_quiz(db, q, a))

\* lessons and quizzes read, users signing up
NextAccess ==
    \/ on_startup
    \/ Signup(Emails)
    \/ GetLesson
    \/ GetQuiz
    \/ ListLessons

SpecAccess == Init /\ [][NextAccess]_vars

\* lessons completed
NextComplete ==
    \/ on_startup
    \/ Signup({DemoEmail})
    \/ GetLesson
    \/ CompleteLesson

SpecComplete == Init /\ [][NextComplete]_vars

\* quizzes read and submitted
NextQuiz ==
    \/ on_startup
    \/ Signup({DemoEmail})
    \/ GetQuiz
    \/ SubmitQuiz

SpecQuiz == Init /\ [][NextQuiz]_vars

\* a request of a learner's session, which the model ends after
\* MaxLearnt rows of Progress and QuizAttempt
Learn(op, r) ==
    /\ Len(r.db.progress) + Len(r.db.quizattempt) <= MaxLearnt
    /\ Serve(op, r)

LearnLesson ==
    \E l \in CompletedIds : Learn("complete_lesson", complete_lesson(db, l))

\* the learner answers every question of a quiz
LearnQuiz ==
    \E q \in QuizIds :
        Learn("submit_quiz", submit_quiz(db, q, Alternating(NumQuestions)))

MyProgress == Serve("my_progress", my_progress(db))

\* lessons completed and quizzes submitted by the same user, and the two
\* views of what it has done
NextLearn ==
    \/ on_startup
    \/ LearnLesson
    \/ LearnQuiz
    \/ ListLessons
    \/ MyProgress

SpecLearn == Init /\ [][NextLearn]_vars

Passwords == {"pw", "nopass"}

Login ==
    \E username \in Emails, password \in Passwords :
        Serve("auth_login", auth_login(db, username, password))

ReadMe == Serve("read_me", read_me(db))

Subscribe == Serve("subscribe", subscribe(db))

ListCourses == Serve("list_courses", list_courses(db))

GetCourse == \E c \in CourseIds : Serve("get_course", get_course(db, c))

\* accounts created, logged in to and read, and the catalog listed
NextAccount ==
    \/ on_startup
    \/ Signup(Emails)
    \/ Login
    \/ ReadMe
    \/ Subscribe
    \/ ListCourses
    \/ GetCourse

SpecAccount == Init /\ [][NextAccount]_vars

\* the learner completes the first lesson and answers the first quiz
LearnFirst ==
    \/ Learn("complete_lesson", complete_lesson(db, 1))
    \/ Learn("submit_quiz", submit_quiz(db, 1, Alternating(NumQuestions)))

\* accounts created and logged in to before, between and after the requests
\* of the learner
NextIdentity ==
    \/ on_startup
    \/ Signup(Emails)
    \/ Login
    \/ LearnFirst
    \/ MyProgress

SpecIdentity == Init /\ [][NextIdentity]_vars

----------------------------------------------------------------------------
(* Concurrent complete_lesson requests.  Each runs in its own worker       *)
(* thread with its own session; a step is one statement reaching the       *)
(* store: the select of get_current_user, its insert, the select of        *)
(* complete_lesson, its insert.                                            *)

RaceLessonIds == 1..NumRaceLessons

\* what a worker holds once its call has returned: nothing, or for a
\* submit_quiz call the request, its status and the id of the row it stored
Outcome(call, status, attempt_id) ==
    IF call.op = "submit_quiz"
    THEN [op |-> "answered", quiz_id |-> call.quiz_id, answers |-> call.answers,
          had_user |-> call.had_user, status |-> status,
          attempt_id |-> attempt_id]
    ELSE Idle

Respond(w, status, detail) ==
    /\ resp' = [op |-> inflight[w].op, status |-> status, detail |-> detail]
    /\ inflight' = [inflight EXCEPT ![w] = Outcome(inflight[w], status, 0)]

\* a request arrives and is handed to worker w
complete_lesson_begin(w) ==
    /\ startups >= 1
    /\ inflight[w] = Idle
    /\ Len(db.progress) < MaxProgress
    /\ \E l \in RaceLessonIds :
          inflight' = [inflight EXCEPT ![w] =
                          [op |-> "complete_lesson", lesson_id |-> l,
                           pc |-> "current_user", uid |-> 0]]
    /\ UNCHANGED <<db, resp, startups>>

\* get_current_user: select(User).where(email == "demo@test.com")
current_user_select(w) ==
    /\ inflight[w].op \in {"complete_lesson", "submit_quiz"}
    /\ inflight[w].pc = "current_user"
    /\ LET found == UserByEmail(db, DemoEmail) IN
       IF ~db.tables THEN Respond(w, 500, "OperationalError")
       ELSE /\ inflight' = [inflight EXCEPT ![w] =
                               IF found # <<>>
                               THEN [@ EXCEPT !.pc = "check", !.uid = found[1].id]
                               ELSE [@ EXCEPT !.pc = "add_user"]]
            /\ UNCHANGED resp
    /\ UNCHANGED <<db, startups>>

\* get_current_user: session.add(user); session.commit(), which the unique
\* index on User.email refuses when the row has been stored meanwhile
current_user_insert(w) ==
    /\ inflight[w].op \in {"complete_lesson", "submit_quiz"}
    /\ inflight[w].pc = "add_user"
    /\ IF UserByEmail(db, DemoEmail) # <<>>
       THEN Respond(w, 500, "IntegrityError") /\ UNCHANGED db
       ELSE LET u == NewUser(db, DemoEmail, "nopass", "Demo User", TRUE) IN
            /\ db' = [db EXCEPT !.user = Append(@, u)]
            /\ inflight' = [inflight EXCEPT ![w] =
                               [@ EXCEPT !.pc = "check", !.uid = u.id]]
            /\ UNCHANGED resp
    /\ UNCHANGED startups

\* complete_lesson: the select of the user's Progress row of the lesson
complete_lesson_select(w) ==
    /\ inflight[w].op = "complete_lesson" /\ inflight[w].pc = "check"
    /\ IF ProgressOf(db, inflight[w].uid, inflight[w].lesson_id) # <<>>
       THEN Respond(w, 200, "already completed")
       ELSE /\ inflight' = [inflight EXCEPT ![w] = [@ EXCEPT !.pc = "insert"]]
            /\ UNCHANGED resp
    /\ UNCHANGED <<db, startups>>

\* complete_lesson: session.add(prog); session.commit()
complete_lesson_insert(w) ==
    /\ inflight[w].op = "complete_lesson" /\ inflight[w].pc = "insert"
    /\ db' = InsertProgress(db, inflight[w].uid, inflight[w].lesson_id)
    /\ Respond(w, 200, "completed")
    /\ UNCHANGED startups

NextRace ==
    \/ on_startup
    \/ \E w \in Workers : complete_lesson_begin(w)
    \/ \E w \in Workers : current_user_select(w)
    \/ \E w \in Workers : current_user_insert(w)
    \/ \E w \in Workers : complete_lesson_select(w)
    \/ \E w \in Workers : complete_lesson_insert(w)

SpecRace == Init /\ [][NextRace]_vars

----------------------------------------------------------------------------
(* Two concurrent submit_quiz requests, a step again one statement         *)
(* reaching the store: the select of get_current_user, its insert,         *)
(* session.get(Quiz), the select of the questions with the grading that    *)
(* follows it, and the insert of the attempt.                              *)

Submitters == {w \in Workers : w <= 2}

\* right answer counts with different scores, and one answer short
RaceAnswerLists ==
    {Alternating(NumQuestions), [i \in 1..NumQuestions |-> 1],
     Alternating(NumQuestions - 1)}

\* a request arrives and is handed to worker w
submit_quiz_begin(w) ==
    /\ startups >= 1
    /\ w \in Submitters
    /\ inflight[w] = Idle
    /\ \E q \in QuizIds, a \in RaceAnswerLists :
          inflight' = [inflight EXCEPT ![w] =
                          [op |-> "submit_quiz", quiz_id |-> q, answers |-> a,
                           pc |-> "current_user", uid |-> 0,
                           had_user |-> UserByEmail(db, DemoEmail) # <<>>,
                           pass_percent |-> 0, score |-> 0, passed |-> FALSE,
                           attempted_at |-> 0]]
    /\ UNCHANGED <<db, resp, startups>>

\* submit_quiz: session.get(Quiz, quiz_id)
submit_quiz_get(w) ==
    /\ inflight[w].op = "submit_quiz" /\ inflight[w].pc = "check"
    /\ LET found == Get(db.quiz, inflight[w].quiz_id) IN
       IF found = <<>> THEN Respond(w, 404, "Quiz not found")
       ELSE /\ inflight' = [inflight EXCEPT ![w] =
                               [@ EXCEPT !.pc = "questions",
                                         !.pass_percent = found[1].pass_percent]]
            /\ UNCHANGED resp
    /\ UNCHANGED <<db, startups>>

\* submit_quiz: the select of the questions, the count check, the grading
\* and the construction of the attempt, stamped as it is constructed
submit_quiz_grade(w) ==
    /\ inflight[w].op = "submit_quiz" /\ inflight[w].pc = "questions"
    /\ LET questions == QuestionsOfQuiz(db, inflight[w].quiz_id)
           answers == inflight[w].answers IN
       IF CountMismatch(answers, questions)
       THEN Respond(w, 400, "Answer count mismatch")
       ELSE IF Len(questions) = 0 THEN Respond(w, 500, "ZeroDivisionError")
       ELSE LET g == grade(questions, inflight[w].pass_percent, answers) IN
            /\ inflight' = [inflight EXCEPT ![w] =
                               [@ EXCEPT !.pc = "insert", !.score = g.score,
                                         !.passed = g.passed,
                                         !.attempted_at = utcnow(db)]]
            /\ UNCHANGED resp
    /\ UNCHANGED <<db, startups>>

\* as CommitAttempt, but the row takes the place after the rows that the
\* call saw when its attempt was constructed
CommitAttempt_Stale(d, call) ==
    LET attempt == [id |-> call.attempted_at, user_id |-> call.uid,
                    quiz_id |-> call.quiz_id, score |-> call.score,
                    passed |-> call.passed, answers |-> json_dumps(call.answers),
                    attempted_at |-> call.attempted_at] IN
    IF call.attempted_at \in DOMAIN d.quizattempt
    THEN [d EXCEPT !.quizattempt[call.attempted_at] = attempt]
    ELSE InsertAttempt(d, [attempt EXCEPT !.id = NextId(d.quizattempt)])

\* submit_quiz: session.add(attempt); session.commit(), the row getting the
\* next id of the table at the commit
CommitAttempt(d, call) ==
    InsertAttempt(d, [id |-> NextId(d.quizattempt), user_id |-> call.uid,
                      quiz_id |-> call.quiz_id, score |-> call.score,
                      passed |-> call.passed,
                      answers |-> json_dumps(call.answers),
                      attempted_at |-> call.attempted_at])

submit_quiz_insert(w) ==
    /\ inflight[w].op = "submit_quiz" /\ inflight[w].pc = "insert"
    /\ db' = CommitAttempt(db, inflight[w])
    /\ resp' = [op |-> "submit_quiz", status |-> 200, detail |-> "ok"]
    /\ inflight' = [inflight EXCEPT ![w] =
                       Outcome(inflight[w], 200, NextId(db.quizattempt))]
    /\ UNCHANGED startups

NextSubmitRace ==
    \/ on_startup
    \/ \E w \in Workers : submit_quiz_begin(w)
    \/ \E w \in Workers : current_user_select(w)
    \/ \E w \in Workers : current_user_insert(w)
    \/ \E w \in Workers : submit_quiz_get(w)
    \/ \E w \in Workers : submit_quiz_grade(w)
    \/ \E w \in Workers : submit_quiz_insert(w)

SpecSubmitRace == Init /\ [][NextSubmitRace]_vars

----------------------------------------------------------------------------
(* The grading of submit_quiz on the quizzes of courses_data, with all     *)
(* their questions.  A request is a quiz and an answer list of its length, *)
(* each answer the question's correct_index or the choice after it.        *)

\* the questions of the quiz of course c, as select(Question) returns them
QuizQuestions(c) ==
    [i \in DOMAIN courses_data[c].correct_index |->
        [id |-> i, correct_index |-> courses_data[c].correct_index[i]]]

GradeAnswers(c) ==
    {[i \in DOMAIN QuizQuestions(c) |->
         IF i \in right THEN QuizQuestions(c)[i].correct_index
         ELSE (QuizQuestions(c)[i].correct_index + 1) % NumChoices] :
     right \in SUBSET DOMAIN QuizQuestions(c)}

InitGrade ==
    /\ db = EmptyDb
    /\ startups = 0
    /\ inflight = [w \in Workers |-> Idle]
    /\ \E c \in DOMAIN courses_data : \E a \in GradeAnswers(c) :
          resp = [op |-> "submission", course |-> c, answers |-> a]

\* lines 938-940 of submit_quiz on the submission
Grade ==
    /\ resp.op = "submission"
    /\ resp' = [op |-> "graded", course |-> resp.course, answers |-> resp.answers,
                total |-> Len(QuizQuestions(resp.course)),
                result |-> grade(QuizQuestions(resp.course),
                                 courses_data[resp.course].pass_percent,
                                 resp.answers)]
    /\ UNCHANGED <<db, startups, inflight>>

NextGrade == Grade

SpecGrade == InitGrade /\ [][NextGrade]_vars

----------------------------------------------------------------------------
(* Concurrent auth_signup requests.  A step is one statement reaching the  *)
(* store: the select by email, then the commit of the new row, which the   *)
(* unique index on User.email checks.  A worker keeps what its last call   *)
(* was given and got.                                                      *)

\* as CommitUser, but User.email has no unique index
CommitUser_NoIndex(d, u) == [db |-> [d EXCEPT !.user = Append(@, u)], ok |-> TRUE]

\* session.add(user); session.commit() with email: Field(unique=True)
CommitUser(d, u) ==
    IF UserByEmail(d, u.email) # <<>> THEN [db |-> d, ok |-> FALSE]
    ELSE [db |-> [d EXCEPT !.user = Append(@, u)], ok |-> TRUE]

Signed(call, status, uid) ==
    [op |-> "signed", email |-> call.email, had_email |-> call.had_email,
     status |-> status, uid |-> uid]

\* a request arrives and is handed to worker w
auth_signup_begin(w) ==
    /\ startups >= 1
    /\ inflight[w].op \in {"idle", "signed"}
    /\ \E email \in Emails :
          inflight' = [inflight EXCEPT ![w] =
                          [op |-> "auth_signup", email |-> email, pc |-> "select",
                           had_email |-> UserByEmail(db, email) # <<>>]]
    /\ UNCHANGED <<db, resp, startups>>

\* auth_signup: select(User).where(User.email == payload.email)
auth_signup_select(w) ==
    /\ inflight[w].op = "auth_signup" /\ inflight[w].pc = "select"
    /\ IF ~db.tables
       THEN /\ resp' = [op |-> "auth_signup", status |-> 500,
                        detail |-> "OperationalError"]
            /\ inflight' = [inflight EXCEPT ![w] = Signed(@, 500, 0)]
       ELSE IF UserByEmail(db, inflight[w].email) # <<>>
       THEN /\ resp' = [op |-> "auth_signup", status |-> 400,
                        detail |-> "Email already registered"]
            /\ inflight' = [inflight EXCEPT ![w] = Signed(@, 400, 0)]
       ELSE /\ inflight' = [inflight EXCEPT ![w] = [@ EXCEPT !.pc = "insert"]]
            /\ UNCHANGED resp
    /\ UNCHANGED <<db, startups>>

\* auth_signup: session.add(user); session.commit()
auth_signup_insert(w) ==
    /\ inflight[w].op = "auth_signup" /\ inflight[w].pc = "insert"
    /\ LET u == NewUser(db, inflight[w].email, "pw", "", FALSE)
           c == CommitUser(db, u) IN
       /\ db' = c.db
       /\ IF c.ok
          THEN /\ resp' = [op |-> "auth_signup", status |-> 200, detail |-> "ok"]
               /\ inflight' = [inflight EXCEPT ![w] = Signed(@, 200, u.id)]
          ELSE /\ resp' = [op |-> "auth_signup", status |-> 500,
                           detail |-> "IntegrityError"]
               /\ inflight' = [inflight EXCEPT ![w] = Signed(@, 500, 0)]
    /\ UNCHANGED startups

\* signups in concurrent workers, and whole requests of the current user
\* between their steps
NextSignupRace ==
    \/ on_startup
    \/ \E w \in Workers : auth_signup_begin(w)
    \/ \E w \in Workers : auth_signup_select(w)
    \/ \E w \in Workers : auth_signup_insert(w)
    \/ ReadMe

SpecSignupRace == Init /\ [][NextSignupRace]_vars

----------------------------------------------------------------------------
(* Properties.  A property of a handler is stated for every request the    *)
(* handler can get in every reachable state of a serving process.          *)

\* the process has started and serves requests on a database with tables
Serving == startups >= 1 /\ db.tables

\* the current user is stored and is not a subscriber
NonSubscriber ==
    \E u \in Range(db.user) : u.email = DemoEmail /\ ~u.is_subscriber

StoredLessons == Range(db.lesson)

StoredQuizzes == Range(db.quiz)

\* the lessons of l's course
Siblings(l) == {m \in StoredLessons : m.course_id = l.course_id}

\* l has the smallest order_index of its course
IsFirstLesson(l) == \A m \in Siblings(l) : l.order_index <= m.order_index

\* C1: for a non-subscriber, get_lesson on the lesson with the minimum
\* order_index of a course succeeds with that lesson's content, and on every
\* other stored lesson of the course it is Forbidden (403).
C1_FirstLessonOnly ==
    (Serving /\ NonSubscriber) =>
        \A l \in StoredLessons :
            LET r == get_lesson(db, l.id) IN
            IF IsFirstLesson(l)
            THEN r.status = 200 /\ r.body.id = l.id /\ r.body.content = l.content
            ELSE r.status = 403 /\ r.body = <<>>

\* a non-subscriber has just been refused a lesson of a course whose first
\* lesson it can read
C1_Witness ==
    /\ Serving /\ NonSubscriber
    /\ resp.op = "get_lesson" /\ resp.status = 403
    /\ \E l, m \in StoredLessons :
          /\ m \in Siblings(l) /\ IsFirstLesson(l) /\ ~IsFirstLesson(m)
          /\ get_lesson(db, l.id).status = 200
          /\ get_lesson(db, m.id).status = 403

\* C3: for a non-subscriber, get_quiz on every stored quiz is Forbidden and
\* returns no question.
C3_QuizViewForbidden ==
    (Serving /\ NonSubscriber) =>
        \A q \in StoredQuizzes :
            LET r == get_quiz(db, q.id) IN
            r.status = 403 /\ r.body = <<>>

\* a non-subscriber has just been refused a quiz that has questions
C3_Witness ==
    /\ Serving /\ NonSubscriber
    /\ resp.op = "get_quiz" /\ resp.status = 403
    /\ \E q \in StoredQuizzes : QuestionsOfQuiz(db, q.id) # <<>>

----------------------------------------------------------------------------
(* Quiz submission.                                                        *)

\* the questions of quiz q
QuestionSet(q) == {x \in Range(db.question) : x.quiz_id = q.id}

\* its i-th question in ascending id order
NthQuestion(q, i) ==
    CHOOSE x \in QuestionSet(q) :
        Cardinality({y \in QuestionSet(q) : y.id < x.id}) = i - 1

Abs(x) == IF x < 0 THEN -x ELSE x

\* s hundredths is 100 * c / n rounded to two decimals
IsRounded(s, c, n) == 2 * Abs(s * n - 10000 * c) <= n

AttemptsKept(d) == d.quizattempt = db.quizattempt

\* C2 (as claimed): for a non-subscriber, submit_quiz on every stored quiz is
\* Forbidden whatever the answers, and persists no QuizAttempt row (taken
\* here for the answer lists of the quiz's length, which no other check of
\* submit_quiz refuses).
C2_SubmitForbidden ==
    (Serving /\ NonSubscriber) =>
        \A q \in StoredQuizzes, a \in AnswerLists :
            LET r == submit_quiz(db, q.id, a) IN
            (Len(a) = Cardinality(QuestionSet(q)) /\ Len(a) >= 1) =>
                r.status = 403 /\ AttemptsKept(r.db)

\* C6: for a stored quiz with N >= 1 questions and an answer list of length
\* N, submit_quiz returns correct = the number of positions whose answer is
\* the correct_index of the question at that position in ascending id order,
\* total = N, and score = 100 * correct / N rounded to two decimals.
C6_Grading ==
    Serving =>
        \A q \in StoredQuizzes, a \in AnswerLists :
            LET n == Cardinality(QuestionSet(q))
                matches == Cardinality({i \in 1..n :
                                           a[i] = NthQuestion(q, i).correct_index})
                r == submit_quiz(db, q.id, a) IN
            (n >= 1 /\ Len(a) = n) =>
                /\ r.status = 200
                /\ r.body.correct = matches
                /\ r.body.total = n
                /\ IsRounded(r.body.score, matches, n)

\* a submission with some, but not all, answers correct has been graded, its
\* score not a whole percent
C6_Witness ==
    /\ Serving
    /\ resp.op = "submit_quiz" /\ resp.status = 200
    /\ \E t \in Range(db.quizattempt) : t.score % 100 # 0

\* C8: for a stored quiz with N questions, submit_quiz with an answer list of
\* another length (the empty list included) is BadRequest (400), computes no
\* score and leaves the QuizAttempt rows unchanged.
C8_CountMismatch ==
    Serving =>
        \A q \in StoredQuizzes, a \in AnswerLists :
            LET r == submit_quiz(db, q.id, a) IN
            Len(a) # Cardinality(QuestionSet(q)) =>
                r.status = 400 /\ r.body = <<>> /\ AttemptsKept(r.db)

\* a submission one answer too long, or too short, has just been refused
C8_Witness ==
    /\ Serving
    /\ resp.op = "submit_quiz" /\ resp.status = 400
    /\ \E q \in StoredQuizzes : Cardinality(QuestionSet(q)) = NumQuestions

UnstoredQuizIds == {q \in QuizIds : q \notin DOMAIN db.quiz}

\* C9 (as claimed): for a quiz id that is not stored, get_quiz and
\* submit_quiz are NotFound (404) and leave the store unchanged.
C9_NotFoundStoreUnchanged ==
    Serving =>
        \A q \in UnstoredQuizIds, a \in AnswerLists :
            LET v == get_quiz(db, q)
                r == submit_quiz(db, q, a) IN
            /\ v.status = 404 /\ v.db = db
            /\ r.status = 404 /\ r.db = db

\* d is the store db, but for the demo user that resolving the current user
\* stores when it is missing
SameButDemoUser(d) ==
    /\ [d EXCEPT !.user = db.user] = db
    /\ \/ d.user = db.user
       \/ /\ \A u \in Range(db.user) : u.email # DemoEmail
          /\ Len(d.user) = Len(db.user) + 1
          /\ SubSeq(d.user, 1, Len(db.user)) = db.user
          /\ d.user[Len(d.user)].email = DemoEmail

\* C9 (amended): for a quiz id that is not stored, get_quiz and submit_quiz
\* are NotFound (404) for any user and any answers, the QuizAttempt rows are
\* unchanged, and so is the rest of the store, but for the demo user row
\* that resolving the current user stores when it is missing.
C9_NotFound ==
    Serving =>
        \A q \in UnstoredQuizIds, a \in AnswerLists :
            LET v == get_quiz(db, q)
                r == submit_quiz(db, q, a) IN
            /\ v.status = 404 /\ v.body = <<>> /\ SameButDemoUser(v.db)
            /\ r.status = 404 /\ r.body = <<>> /\ SameButDemoUser(r.db)
            /\ AttemptsKept(v.db) /\ AttemptsKept(r.db)

\* a submission to a quiz id that is not stored, while others are, has just
\* been answered NotFound
C9_Witness ==
    /\ Serving
    /\ resp.op = "submit_quiz" /\ resp.status = 404
    /\ StoredQuizzes # {} /\ UnstoredQuizIds # {}

\* the QuizAttempt rows of the store are the first rows of d, unchanged
AttemptsPrefix(d) ==
    /\ Len(d.quizattempt) >= Len(db.quizattempt)
    /\ SubSeq(d.quizattempt, 1, Len(db.quizattempt)) = db.quizattempt

\* C10: QuizAttempt history is append-only.  A successful submit_quiz adds
\* exactly one row, for the current user and the quiz, after the rows that
\* were there, which stay as they were; a refused submit_quiz and every other
\* operation leave the rows as they were.  So the attempts of one (user,
\* quiz) pair are as many as the successful submissions of that pair.
C10_AppendOnly ==
    Serving =>
        /\ \A q \in QuizIds, a \in AnswerLists :
              LET r == submit_quiz(db, q, a)
                  n == Len(db.quizattempt) IN
              IF r.status = 200
              THEN /\ Len(r.db.quizattempt) = n + 1
                   /\ AttemptsPrefix(r.db)
                   /\ r.db.quizattempt[n + 1].quiz_id = q
                   /\ \E u \in Range(r.db.user) :
                         u.email = DemoEmail
                             /\ r.db.quizattempt[n + 1].user_id = u.id
              ELSE AttemptsKept(r.db)
        /\ \A q \in QuizIds : AttemptsKept(get_quiz(db, q).db)
        /\ \A l \in LessonIds :
              AttemptsKept(get_lesson(db, l).db)
                  /\ AttemptsKept(complete_lesson(db, l).db)
        /\ \A c \in CourseIds :
              AttemptsKept(get_course(db, c).db)
                  /\ AttemptsKept(list_lessons_for_course(db, c).db)
        /\ \A e \in Emails :
              AttemptsKept(auth_signup(db, e, "pw").db)
                  /\ AttemptsKept(auth_login(db, e, "pw").db)
        /\ AttemptsKept(read_me(db).db) /\ AttemptsKept(subscribe(db).db)
        /\ AttemptsKept(list_courses(db).db) /\ AttemptsKept(my_progress(db).db)
        /\ \A done \in 0..Len(SeedSteps) : AttemptsKept(seed_data(db, done))

\* three successful submissions by the same user to the same quiz have left
\* three attempts of that pair, with their own ids
C10_Witness ==
    /\ Serving
    /\ resp.op = "submit_quiz" /\ resp.status = 200
    /\ Len(db.quizattempt) = 3
    /\ \A i \in 1..3 :
          /\ db.quizattempt[i].id = i
          /\ db.quizattempt[i].user_id = db.quizattempt[1].user_id
          /\ db.quizattempt[i].quiz_id = db.quizattempt[1].quiz_id

\* the id of the current user in d
CurrentUserId(d) == (CHOOSE u \in Range(d.user) : u.email = DemoEmail).id

\* C5: complete_lesson(user, L) twice in a row: the first call of a lesson
\* not completed yet answers "completed", the second "already completed";
\* afterwards there is exactly one Progress row for (user, L), with the
\* completed_at that the first call left: the second call inserts no row
\* and changes none.
C5_Idempotent ==
    Serving =>
        \A l \in LessonIds :
            LET r1 == complete_lesson(db, l)
                r2 == complete_lesson(r1.db, l)
                uid == CurrentUserId(r1.db)
                Rows(d) == {p \in Range(d.progress) :
                               p.user_id = uid /\ p.lesson_id = l} IN
            /\ r1.status = 200 /\ r2.status = 200
            /\ Rows(db) = {} => r1.body.message = "completed"
            /\ r2.body.message = "already completed"
            /\ r2.db = r1.db
            /\ Cardinality(Rows(r2.db)) = 1
            /\ Rows(db) = {} =>
                  \A p \in Rows(r2.db) : p.completed_at = utcnow(db)

\* a lesson has been completed and then completed again, leaving one row
C5_Witness ==
    /\ Serving
    /\ resp.op = "complete_lesson" /\ resp.detail = "already completed"
    /\ db.progress # <<>>
    /\ \A p \in Range(db.progress) :
          Cardinality({x \in Range(db.progress) :
                          x.user_id = p.user_id /\ x.lesson_id = p.lesson_id}) = 1

\* C4 (as claimed): in every reachable state, those reached by interleaving
\* concurrent complete_lesson calls of one (user, lesson) pair included,
\* there is at most one Progress row per (user_id, lesson_id) pair.
C4_OneProgressRow ==
    \A p1, p2 \in Range(db.progress) :
        (p1.user_id = p2.user_id /\ p1.lesson_id = p2.lesson_id) => p1.id = p2.id

\* C7: passed is true exactly when the returned score is at least the quiz's
\* pass_percent: a score equal to pass_percent passes, a score one hundredth
\* below it fails; with 10 questions and pass_percent 70, 7 correct give
\* 70.0 and passed, 6 correct give 60.0 and not passed.
C7_PassBoundary ==
    /\ \A p \in 0..100 : Passed(100 * p, p) /\ ~Passed(100 * p - 1, p)
    /\ resp.op = "graded" =>
          LET pass == courses_data[resp.course].pass_percent
              key == courses_data[resp.course].correct_index
              hits == Cardinality({i \in DOMAIN key : resp.answers[i] = key[i]})
              g == resp.result IN
          /\ g.passed <=> g.score >= 100 * pass
          /\ (resp.total = 10 /\ pass = 70 /\ hits = 7) =>
                g.score = 7000 /\ g.passed
          /\ (resp.total = 10 /\ pass = 70 /\ hits = 6) =>
                g.score = 6000 /\ ~g.passed

\* a submission has been graded whose score is the quiz's pass_percent, 70,
\* and has passed
C7_Witness ==
    /\ resp.op = "graded"
    /\ courses_data[resp.course].pass_percent = 70
    /\ resp.result.score = 7000 /\ resp.result.passed

\* the call that worker w has answered was valid: the user was stored when
\* it began, its quiz is stored and it has one answer per question
ValidSubmission(w) ==
    /\ inflight[w].had_user
    /\ inflight[w].quiz_id \in DOMAIN db.quiz
    /\ LET n == Cardinality(QuestionSet(db.quiz[inflight[w].quiz_id])) IN
       n >= 1 /\ Len(inflight[w].answers) = n

AnsweredValid == {w \in Workers : inflight[w].op = "answered" /\ ValidSubmission(w)}

\* C11: two concurrent valid submit_quiz calls for the same (user, quiz)
\* pair, however their reads and commits interleave, both succeed, each
\* leaves its own QuizAttempt row, with the quiz, the user and the score of
\* its own answer list, and the rows stored are as many as the calls that
\* succeeded: two.
C11_ConcurrentSubmits ==
    /\ \A w \in AnsweredValid :
          LET q == db.quiz[inflight[w].quiz_id]
              n == Cardinality(QuestionSet(q))
              matches == Cardinality({i \in 1..n :
                            inflight[w].answers[i] = NthQuestion(q, i).correct_index})
              row == inflight[w].attempt_id IN
          /\ inflight[w].status = 200
          /\ row \in DOMAIN db.quizattempt
          /\ db.quizattempt[row].id = row
          /\ db.quizattempt[row].quiz_id = q.id
          /\ db.quizattempt[row].user_id = CurrentUserId(db)
          /\ IsRounded(db.quizattempt[row].score, matches, n)
          /\ db.quizattempt[row].answers = json_dumps(inflight[w].answers)
    /\ \A w1, w2 \in AnsweredValid :
          w1 # w2 => inflight[w1].attempt_id # inflight[w2].attempt_id
    /\ Len(db.quizattempt) =
          Cardinality({w \in Workers : inflight[w].op = "answered"
                                          /\ inflight[w].status = 200})

\* two valid calls for the same quiz with different answer lists have both
\* been answered, leaving two rows with different scores
C11_Witness ==
    /\ Cardinality(AnsweredValid) = 2
    /\ \A w1, w2 \in AnsweredValid :
          /\ inflight[w1].quiz_id = inflight[w2].quiz_id
          /\ w1 # w2 =>
                db.quizattempt[inflight[w1].attempt_id].score
                    # db.quizattempt[inflight[w2].attempt_id].score
    /\ Len(db.quizattempt) = 2

UnstoredLessonIds == {l \in LessonIds : l \notin DOMAIN db.lesson}

\* C12: get_lesson on a lesson id that is not stored is NotFound (404) for
\* every user, subscriber or not: the lookup comes before the subscription
\* check, so a non-subscriber is never Forbidden a lesson that does not exist.
C12_LessonNotFound ==
    Serving =>
        \A l \in UnstoredLessonIds :
            LET r == get_lesson(db, l) IN
            r.status = 404 /\ r.detail = "Lesson not found" /\ r.body = <<>>

\* a non-subscriber, who is Forbidden a stored lesson, has just been answered
\* NotFound
C12_Witness ==
    /\ Serving /\ NonSubscriber
    /\ resp.op = "get_lesson" /\ resp.status = 404
    /\ UnstoredLessonIds # {}
    /\ \E l \in StoredLessons : get_lesson(db, l.id).status = 403

\* the current user is a subscriber: the stored demo user is one, or none is
\* stored and the one that resolution creates is
Subscriber == \A u \in Range(db.user) : u.email = DemoEmail => u.is_subscriber

\* C13: for a subscriber, get_lesson on every stored lesson of every course,
\* whatever its order_index, succeeds with that lesson's content and is
\* never Forbidden.
C13_SubscriberReadsAll ==
    (Serving /\ Subscriber) =>
        \A l \in StoredLessons :
            LET r == get_lesson(db, l.id) IN
            /\ r.status = 200
            /\ r.body.id = l.id /\ r.body.content = l.content
            /\ r.body.title = l.title /\ r.body.order_index = l.order_index

\* a subscriber has just read a lesson, in a store with a lesson that is not
\* the first of its course and that the subscriber can read
C13_Witness ==
    /\ Serving /\ Subscriber
    /\ \E u \in Range(db.user) : u.email = DemoEmail
    /\ resp.op = "get_lesson" /\ resp.status = 200
    /\ \E l \in StoredLessons :
          ~IsFirstLesson(l) /\ get_lesson(db, l.id).status = 200

\* C14: complete_lesson is not gated: for any user and any lesson_id, the
\* id of no stored lesson and of a lesson Forbidden to the user included, it
\* succeeds; with no Progress row for (user, lesson_id) it answers
\* "completed" and adds that one row, otherwise "already completed" and adds
\* nothing.
C14_CompleteUngated ==
    Serving =>
        \A l \in LessonIds :
            LET r == complete_lesson(db, l)
                uid == CurrentUserId(r.db)
                n == Len(db.progress) IN
            /\ r.status = 200
            /\ IF \E p \in Range(db.progress) : p.user_id = uid /\ p.lesson_id = l
               THEN r.body.message = "already completed"
                        /\ r.db.progress = db.progress
               ELSE /\ r.body.message = "completed"
                    /\ Len(r.db.progress) = n + 1
                    /\ SubSeq(r.db.progress, 1, n) = db.progress
                    /\ r.db.progress[n + 1].user_id = uid
                    /\ r.db.progress[n + 1].lesson_id = l

\* a non-subscriber has completed a lesson that is not stored and a lesson
\* that get_lesson refuses
C14_Witness ==
    /\ Serving /\ NonSubscriber
    /\ resp.op = "complete_lesson" /\ resp.detail = "completed"
    /\ \E p \in Range(db.progress) : p.lesson_id \notin DOMAIN db.lesson
    /\ \E p \in Range(db.progress) : get_lesson(db, p.lesson_id).status = 403

\* C15 (as claimed): every submit_quiz call ends in one of three outcomes:
\* a score with an attempt persisted, NotFound (the quiz id is not stored),
\* or BadRequest (the answer count differs from the question count); so a
\* submission with as many answers as the stored quiz has questions gets a
\* score, a quiz of no questions with an empty answer list included.
C15_ThreeOutcomes ==
    Serving =>
        \A q \in QuizIds, a \in AnswerLists :
            LET r == submit_quiz(db, q, a)
                n == Len(db.quizattempt) IN
            /\ r.status \in {200, 404, 400}
            /\ r.status = 404 <=> q \notin DOMAIN db.quiz
            /\ (q \in DOMAIN db.quiz
                    /\ Len(a) = Cardinality(QuestionSet(db.quiz[q]))) =>
                  r.status = 200 /\ Len(r.db.quizattempt) = n + 1

\* the stores that differ from db only in correct_index values: one
\* question's changed to any choice, or every question's moved on by k
OtherKeys ==
    {[db EXCEPT !.question[i].correct_index = k] :
        i \in DOMAIN db.question, k \in 0..(NumChoices - 1)}
    \cup
    {[db EXCEPT !.question = [i \in DOMAIN @ |->
                                [@[i] EXCEPT !.correct_index = (@ + k) % NumChoices]]] :
        k \in 1..(NumChoices - 1)}

\* C16: get_quiz withholds the correct answers: on two stores that differ
\* only in correct_index values it returns the same result, the quiz's id,
\* title, pass_percent and lesson_id and per question only id, text and
\* choices.
C16_KeyWithheld ==
    Serving =>
        \A q \in QuizIds :
            LET r == get_quiz(db, q) IN
            /\ \A d2 \in OtherKeys :
                  LET r2 == get_quiz(d2, q) IN
                  r2.status = r.status /\ r2.detail = r.detail /\ r2.body = r.body
            /\ r.status = 200 =>
                  /\ DOMAIN r.body = {"id", "title", "pass_percent",
                                      "questions", "lesson_id"}
                  /\ \A i \in DOMAIN r.body.questions :
                        DOMAIN r.body.questions[i] = {"id", "text", "choices"}

\* a subscriber has just read a quiz, in a store with a quiz that has
\* questions and with other stores to compare it with
C16_Witness ==
    /\ Serving /\ Subscriber
    /\ resp.op = "get_quiz" /\ resp.status = 200
    /\ \E d2 \in OtherKeys : d2 # db
    /\ \E q \in StoredQuizzes :
          get_quiz(db, q.id).status = 200 /\ get_quiz(db, q.id).body.questions # <<>>

\* the stored lesson rows, other than the first of their course, whose
\* content is in the list of lesson views
ContentBeyondFirst(views) ==
    {l \in StoredLessons :
        /\ ~IsFirstLesson(l)
        /\ \E i \in DOMAIN views : views[i].id = l.id /\ views[i].content = l.content}

\* C17 (as claimed): for a non-subscriber, neither get_lesson nor
\* list_lessons_for_course returns the content of a lesson other than the
\* one with the smallest order_index of its course.
C17_NoContentBeyondFirst ==
    (Serving /\ NonSubscriber) =>
        /\ \A l \in LessonIds :
              LET r == get_lesson(db, l) IN
              r.status = 200 => ContentBeyondFirst(<<r.body>>) = {}
        /\ \A c \in CourseIds :
              LET r == list_lessons_for_course(db, c) IN
              r.status = 200 => ContentBeyondFirst(r.body) = {}

\* C18 (as claimed): seeding is all-or-nothing per course: in every reachable
\* state, one left by a seed run that failed part-way included, each stored
\* Course has all its lessons, its quiz and all that quiz's questions.
C18_CourseComplete ==
    \A c \in Range(db.course) :
        LET quizzes == {q \in StoredQuizzes : q.course_id = c.id} IN
        /\ Cardinality({l \in StoredLessons : l.course_id = c.id})
              = Cardinality(CatLessons(c.title))
        /\ Cardinality(quizzes) = 1
        /\ \A q \in quizzes :
              Cardinality(QuestionSet(q)) = Cardinality(CatQuestions(c.title))

IsPrefix(a, b) == Len(a) <= Len(b) /\ SubSeq(b, 1, Len(a)) = a

\* the store d holds the catalog: every course of it with its lessons in
\* order, and its one quiz with the quiz's questions and their answers
HoldsCatalog(d) ==
    /\ Len(d.course) = Cardinality(CatCourses)
    /\ \A c \in CatCourses :
          LET lessons == {l \in Range(d.lesson) : l.course_id = c}
              quizzes == {q \in Range(d.quiz) : q.course_id = c} IN
          /\ d.course[c].title = c
          /\ {l.order_index : l \in lessons} = CatLessons(c)
          /\ Cardinality(lessons) = Cardinality(CatLessons(c))
          /\ Cardinality(quizzes) = 1
          /\ \A q \in quizzes :
                LET questions == {x \in Range(d.question) : x.quiz_id = q.id} IN
                /\ q.pass_percent = courses_data[c].pass_percent
                /\ Cardinality(questions) = Cardinality(CatQuestions(c))
                /\ \A x \in questions :
                      \E i \in CatQuestions(c) :
                          /\ Cardinality({y \in questions : y.id < x.id}) = i - 1
                          /\ x.correct_index = courses_data[c].correct_index[i]

\* C19: seed_data is guarded and idempotent: with a Course row stored it
\* changes nothing; with none it creates the catalog, every course with its
\* lessons and one quiz (of ten questions in courses_data), keeps the users
\* stored and ensures that a demo user is; run again after a complete run it
\* changes nothing.
C19_SeedGuarded ==
    db.tables =>
        LET once == seed_data(db, Len(SeedSteps)) IN
        /\ db.course # <<>> =>
              \A done \in 0..Len(SeedSteps) : seed_data(db, done) = db
        /\ db.course = <<>> =>
              /\ HoldsCatalog(once)
              /\ IsPrefix(db.user, once.user)
              /\ Len(once.user) <= Len(db.user) + 1
              /\ Cardinality({u \in Range(once.user) : u.email = DemoEmail}) = 1
              /\ (\A u \in Range(db.user) : u.email # DemoEmail) =>
                    once.user[Len(once.user)].is_subscriber
              /\ once.progress = db.progress
              /\ once.quizattempt = db.quizattempt
        /\ \A done \in 0..Len(SeedSteps) : seed_data(once, done) = once
        /\ \A c \in DOMAIN courses_data :
              Len(courses_data[c].correct_index) = 10

\* the process has started twice, seed_data has run both times, and the
\* store holds the catalog once
C19_Witness ==
    /\ startups = 2 /\ resp.op = "on_startup"
    /\ db.tables /\ HoldsCatalog(db)
    /\ \E u \in Range(db.user) : u.email = DemoEmail

\* the ids of a lookup that are not stored
UnstoredCourseIds == {c \in CourseIds : c \notin DOMAIN db.course}

\* C20 (as claimed): after a startup in which init_db or seed_data failed,
\* the service accepts requests with whatever content was stored, and
\* lookups of missing ids yield NotFound.
C20_MissingIdsNotFound ==
    startups >= 1 =>
        /\ \A l \in UnstoredLessonIds : get_lesson(db, l).status = 404
        /\ \A q \in UnstoredQuizIds : get_quiz(db, q).status = 404
        /\ \A c \in UnstoredCourseIds :
              get_course(db, c).status = 404
                  /\ list_lessons_for_course(db, c).status = 404

\* C20 (amended): a failure of init_db or of seed_data is caught: whatever
\* their outcome, on_startup completes and keeps the tables and every row
\* that was stored.  With tables, the service then answers with whatever
\* content was stored, and lookups of missing ids yield NotFound; when
\* init_db failed and no table was ever created, nothing is stored and the
\* lookups fail with an internal error (500) instead.
C20_StartupCaught ==
    /\ \A ok \in BOOLEAN, done \in 0..Len(SeedSteps) :
          LET d2 == seed_data(init_db(db, ok), done) IN
          /\ db.tables => d2.tables
          /\ ok => d2.tables
          /\ IsPrefix(db.user, d2.user) /\ IsPrefix(db.course, d2.course)
          /\ IsPrefix(db.lesson, d2.lesson) /\ IsPrefix(db.quiz, d2.quiz)
          /\ IsPrefix(db.question, d2.question)
          /\ d2.progress = db.progress /\ d2.quizattempt = db.quizattempt
    /\ (startups < MaxStartups /\ \A w \in Workers : inflight[w] = Idle) =>
          ENABLED on_startup
    /\ startups >= 1 =>
          LET status == IF db.tables THEN 404 ELSE 500 IN
          /\ ~db.tables => db = EmptyDb
          /\ \A l \in UnstoredLessonIds : get_lesson(db, l).status = status
          /\ \A q \in UnstoredQuizIds : get_quiz(db, q).status = status
          /\ \A c \in UnstoredCourseIds :
                get_course(db, c).status = status
                    /\ list_lessons_for_course(db, c).status = status

\* after a startup whose seed_data failed and left no content, a lookup has
\* just been answered NotFound
C20_Witness ==
    /\ startups >= 1 /\ db.tables
    /\ db.course = <<>> /\ db.lesson = <<>> /\ db.quiz = <<>>
    /\ resp.op \in {"get_lesson", "get_quiz", "list_lessons_for_course"}
    /\ resp.status = 404

\* C21 (as claimed): get_lesson and get_quiz are pure reads: whether the
\* request ends in success, NotFound or Forbidden, every table of the store
\* is as it was.
C21_PureReads ==
    Serving =>
        /\ \A l \in LessonIds : get_lesson(db, l).db = db
        /\ \A q \in QuizIds : get_quiz(db, q).db = db

DemoUserStored == \E u \in Range(db.user) : u.email = DemoEmail

\* C21 (amended): a get_lesson or get_quiz request, whether it ends in
\* success, NotFound or Forbidden, leaves the Course, Lesson, Quiz, Question,
\* Progress and QuizAttempt tables unchanged, and the User table too but for
\* the demo@test.com row that resolving the current user adds when no such
\* user is stored.
C21_ReadsKeepContent ==
    Serving =>
        /\ \A l \in LessonIds :
              LET r == get_lesson(db, l) IN
              /\ r.status \in {200, 403, 404}
              /\ SameButDemoUser(r.db)
              /\ DemoUserStored => r.db = db
        /\ \A q \in QuizIds :
              LET r == get_quiz(db, q) IN
              /\ r.status \in {200, 403, 404}
              /\ SameButDemoUser(r.db)
              /\ DemoUserStored => r.db = db

\* a non-subscriber has just been refused a lesson, in a store with a lesson
\* it can read and ids that are not stored: the three outcomes of a read
C21_Witness ==
    /\ Serving /\ NonSubscriber
    /\ resp.op = "get_lesson" /\ resp.status = 403
    /\ \E l \in LessonIds : get_lesson(db, l).status = 200
    /\ \E l \in LessonIds : get_lesson(db, l).status = 404
    /\ db.progress = <<>> /\ db.quizattempt = <<>>

\* the answer lists of a quiz's length, and the shorter and longer ones the
\* model submits
FullLists == {a \in AnswerLists : Len(a) = NumQuestions} \cup SubmittedLists

\* C22: completion and quiz passing are independent: submit_quiz leaves the
\* Progress rows as they are, also when the attempt passes at a quiz linked
\* to a lesson, and complete_lesson leaves the QuizAttempt rows as they are.
C22_Independent ==
    Serving =>
        /\ \A q \in QuizIds, a \in FullLists :
              submit_quiz(db, q, a).db.progress = db.progress
        /\ \A l \in LessonIds :
              complete_lesson(db, l).db.quizattempt = db.quizattempt

\* a lesson was completed, then an attempt passed at the quiz of another
\* lesson, which has no Progress row; completing that lesson now would add
\* the row and no attempt
C22_Witness ==
    /\ Serving /\ resp.op = "submit_quiz" /\ resp.status = 200
    /\ db.progress # <<>>
    /\ \E i \in DOMAIN db.quizattempt :
          LET att == db.quizattempt[i]
              quiz == Get(db.quiz, att.quiz_id)[1] IN
          /\ att.passed /\ att.attempted_at > db.progress[1].completed_at
          /\ quiz.lesson_id # <<>>
          /\ ProgressOf(db, att.user_id, quiz.lesson_id[1]) = <<>>
          /\ complete_lesson(db, quiz.lesson_id[1]).db.progress # db.progress

\* C23 (as claimed): resolving the current user always yields the one
\* demo@test.com account: a resolution returns that user, adds it only when
\* none is stored, a later resolution returns the same id, at most one user
\* with that email is stored, and this holds for concurrent first requests
\* too: none of them fails to get the user.
C23_FixedAccount ==
    /\ Cardinality({u \in Range(db.user) : u.email = DemoEmail}) <= 1
    /\ Serving =>
          LET cu == get_current_user(db) IN
          /\ cu.user.email = DemoEmail
          /\ cu.user \in Range(cu.db.user)
          /\ DemoUserStored => (cu.db = db /\ cu.user.id = CurrentUserId(db))
          /\ get_current_user(cu.db) = cu
    /\ resp.detail # "IntegrityError"

RequestOutcomes ==
    {auth_signup(db, e, "pw").db : e \in Emails}
    \cup {auth_login(db, e, p).db : e \in Emails, p \in Passwords}
    \cup {read_me(db).db, subscribe(db).db, list_courses(db).db, my_progress(db).db}
    \cup {get_course(db, c).db : c \in CourseIds}
    \cup {list_lessons_for_course(db, c).db : c \in CourseIds}
    \cup {get_lesson(db, l).db : l \in LessonIds}
    \cup {complete_lesson(db, l).db : l \in CompletedIds}
    \cup {get_quiz(db, q).db : q \in QuizIds}
    \cup {submit_quiz(db, q, a).db : q \in QuizIds, a \in SubmittedLists}

\* the stores that a start leaves db in
StartOutcomes ==
    {seed_data(init_db(db, ok), done) : ok \in BOOLEAN, done \in 0..Len(SeedSteps)}

Outcomes == RequestOutcomes \cup StartOutcomes

Content(d) ==
    [course |-> d.course, lesson |-> d.lesson, quiz |-> d.quiz,
     question |-> d.question]

\* C25: content is read-only after seeding: no request (signup, login,
\* subscribe, the course, lesson and quiz reads, complete_lesson,
\* submit_quiz, my_progress) creates, changes or deletes a Course, Lesson,
\* Quiz or Question row; a start, through seed_data, is what writes them,
\* and only while no course is stored.
C25_ContentReadOnly ==
    /\ \A d \in RequestOutcomes : Content(d) = Content(db)
    /\ \A d \in StartOutcomes :
          Content(d) # Content(db) => (db.course = <<>> /\ d.course # <<>>)

\* the whole catalog is seeded, and since then a lesson was completed and a
\* quiz attempt stored
C25_Witness ==
    /\ Serving /\ HoldsCatalog(db)
    /\ resp.op \in {"complete_lesson", "submit_quiz"} /\ resp.status = 200
    /\ db.progress # <<>> /\ db.quizattempt # <<>>

UsersWithEmail(d, e) == {u \in Range(d.user) : u.email = e}

\* C26: user emails are unique in every reachable state.  A signup with an
\* email that is stored when the request arrives fails with 400 and creates
\* no user; a signup with a new email, run on its own, creates exactly one
\* user, with is_subscriber false; and of concurrent signups, whatever their
\* interleaving, a successful one has stored the one user of its email.
C26_UniqueEmails ==
    /\ \A e \in Emails : Cardinality(UsersWithEmail(db, e)) <= 1
    /\ Serving =>
          \A e \in Emails :
              LET r == auth_signup(db, e, "pw") IN
              IF UsersWithEmail(db, e) # {}
              THEN r.status = 400 /\ r.db = db
              ELSE /\ r.status = 200
                   /\ r.db = [db EXCEPT !.user = Append(@, r.db.user[Len(r.db.user)])]
                   /\ UsersWithEmail(r.db, e) = {r.db.user[Len(r.db.user)]}
                   /\ ~r.db.user[Len(r.db.user)].is_subscriber
    /\ \A w \in Workers :
          inflight[w].op = "signed" =>
              LET call == inflight[w] IN
              /\ call.status \in {200, 400, 500}
              /\ call.had_email => (call.status = 400 /\ call.uid = 0)
              /\ call.status = 200 =>
                    /\ ~call.had_email
                    /\ UsersWithEmail(db, call.email) = {db.user[call.uid]}
                    /\ ~db.user[call.uid].is_subscriber
              /\ call.status # 200 => call.uid = 0

\* two concurrent signups with the same new email have both passed the
\* select; one stored the user, the commit of the other was refused
C26_Witness ==
    /\ \E w1, w2 \in Workers :
          /\ w1 # w2
          /\ inflight[w1].op = "signed" /\ inflight[w2].op = "signed"
          /\ inflight[w1].email = inflight[w2].email
          /\ ~inflight[w1].had_email /\ ~inflight[w2].had_email
          /\ inflight[w1].status = 200 /\ inflight[w2].status = 500
    /\ resp.detail = "IntegrityError"
    /\ Len(db.user) = 2

\* C27: in every reachable state every stored QuizAttempt row is consistent
\* with the quiz it references: the quiz is stored, the score lies between 0
\* and 100 inclusive, passed equals (score >= pass_percent of the quiz), and
\* the stored answers list has as many entries as the quiz has questions.
C27_AttemptsConsistent ==
    \A att \in Range(db.quizattempt) :
        /\ att.quiz_id \in DOMAIN db.quiz
        /\ LET quiz == db.quiz[att.quiz_id] IN
           /\ 0 <= att.score /\ att.score <= 100 * 100
           /\ att.passed <=> (att.score >= 100 * quiz.pass_percent)
           /\ Len(json_loads(att.answers)) = Cardinality(QuestionSet(quiz))

\* two concurrent submissions have stored a passed and a failed attempt
C27_Witness ==
    /\ Len(db.quizattempt) = 2
    /\ \E a1, a2 \in Range(db.quizattempt) : a1.passed /\ ~a2.passed
    /\ \A w \in Submitters : inflight[w].op = "answered"

\* C28 (as claimed): in every reachable state the user that resolving the
\* current user returns is a subscriber, whatever starts (seeding or failing
\* to), signups and other requests came before, a signup with the email
\* demo@test.com made before the demo user exists included.
C28_AlwaysSubscriber ==
    Serving => get_current_user(db).user.is_subscriber

ThirdEmail == "bob@example.com"

\* db after one more user, with an email of its own, has signed up
WithAnother(d) == auth_signup(d, ThirdEmail, "pw").db

DemoUsers(d) == UsersWithEmail(d, DemoEmail)

\* d1 and d2 hold the same content, and the same Progress and QuizAttempt
\* rows, each of its store's demo user; the demo users differ in id at most
SameForDemoUser(d1, d2) ==
    /\ Content(d1) = Content(d2)
    /\ {[u EXCEPT !.id = 0] : u \in DemoUsers(d1)}
           = {[u EXCEPT !.id = 0] : u \in DemoUsers(d2)}
    /\ Len(d1.progress) = Len(d2.progress)
    /\ Len(d1.quizattempt) = Len(d2.quizattempt)
    /\ \A i \in DOMAIN d1.progress :
          /\ [d1.progress[i] EXCEPT !.user_id = 0]
                 = [d2.progress[i] EXCEPT !.user_id = 0]
          /\ d1.progress[i].user_id = CurrentUserId(d1)
          /\ d2.progress[i].user_id = CurrentUserId(d2)
    /\ \A i \in DOMAIN d1.quizattempt :
          /\ [d1.quizattempt[i] EXCEPT !.user_id = 0]
                 = [d2.quizattempt[i] EXCEPT !.user_id = 0]
          /\ d1.quizattempt[i].user_id = CurrentUserId(d1)
          /\ d2.quizattempt[i].user_id = CurrentUserId(d2)

\* the same response, leaving the same rows of the demo user
Agree(r1, r2) ==
    /\ r1.status = r2.status /\ r1.detail = r2.detail /\ r1.body = r2.body
    /\ SameForDemoUser(r1.db, r2.db)

\* C29: signup and login have no influence on identity: in every reachable
\* state every Progress row and every QuizAttempt row has the user_id of the
\* demo@test.com user; a login changes nothing in the store; and get_lesson,
\* get_quiz, complete_lesson, submit_quiz and my_progress answer the same,
\* and leave the same rows, whether or not another user has signed up
\* before.
C29_IdentityFixed ==
    /\ \A p \in Range(db.progress) :
          DemoUserStored /\ p.user_id = CurrentUserId(db)
    /\ \A att \in Range(db.quizattempt) :
          DemoUserStored /\ att.user_id = CurrentUserId(db)
    /\ Serving =>
          LET other == WithAnother(db) IN
          /\ \A e \in Emails \cup {ThirdEmail}, p \in Passwords :
                /\ auth_login(db, e, p).db = db
                /\ auth_login(other, e, p).db = other
          /\ \A l \in LessonIds :
                /\ Agree(get_lesson(db, l), get_lesson(other, l))
                /\ Agree(complete_lesson(db, l), complete_lesson(other, l))
          /\ \A q \in QuizIds :
                /\ Agree(get_quiz(db, q), get_quiz(other, q))
                /\ \A a \in SubmittedLists :
                      Agree(submit_quiz(db, q, a), submit_quiz(other, q, a))
          /\ Agree(my_progress(db), my_progress(other))

\* another user signed up before the demo user was created, so that the
\* demo user is not the first user; it has completed a lesson and stored an
\* attempt, and has read both back
C29_Witness ==
    /\ Serving /\ Len(db.user) = 2 /\ db.user[1].email = OtherEmail
    /\ CurrentUserId(db) = 2
    /\ db.progress # <<>> /\ db.quizattempt # <<>>
    /\ resp.op = "my_progress" /\ resp.status = 200

\* the Progress rows of d's current user for lesson l
CompletionsOf(d, l) ==
    {p \in Range(d.progress) : p.user_id = CurrentUserId(d) /\ p.lesson_id = l}

\* C30: list_lessons_for_course composes completion with content: for a
\* stored course it returns exactly that course's lessons, in ascending
\* order_index, each with completed = true exactly when a Progress row exists
\* for (current user, that lesson) and with completed_at taken from such a
\* row (none when not completed); for a course id that is not stored it
\* answers NotFound; and after complete_lesson(L), the list of L's course
\* shows L as completed.
C30_ListComposes ==
    Serving =>
        /\ \A c \in CourseIds :
              LET r == list_lessons_for_course(db, c)
                  stored == {l \in StoredLessons : l.course_id = c} IN
              IF c \notin DOMAIN db.course
              THEN r.status = 404 /\ r.detail = "Course not found"
              ELSE /\ r.status = 200
                   /\ Len(r.body) = Cardinality(stored)
                   /\ \A i, j \in DOMAIN r.body :
                         i < j => r.body[i].order_index < r.body[j].order_index
                   /\ \A i \in DOMAIN r.body :
                         LET v == r.body[i]
                             done == CompletionsOf(r.db, v.id) IN
                         /\ \E l \in stored :
                               /\ v.id = l.id /\ v.title = l.title
                               /\ v.content = l.content
                               /\ v.order_index = l.order_index
                         /\ v.completed <=> done # {}
                         /\ IF done = {} THEN v.completed_at = <<>>
                            ELSE \E p \in done : v.completed_at = <<p.completed_at>>
        /\ \A l \in StoredLessons :
              LET after == complete_lesson(db, l.id).db
                  views == list_lessons_for_course(after, l.course_id).body IN
              \E i \in DOMAIN views :
                  /\ views[i].id = l.id /\ views[i].completed
                  /\ views[i].completed_at # <<>>

\* the lessons of a course have been listed after one of them was completed
\* and with another not completed: the list shows the one as completed, with
\* the time of its row, and the other as not
C30_Witness ==
    /\ Serving /\ resp.op = "list_lessons_for_course" /\ resp.status = 200
    /\ \E c \in DOMAIN db.course :
          LET views == list_lessons_for_course(db, c).body IN
          \E i, j \in DOMAIN views :
              /\ views[i].completed /\ ~views[j].completed
              /\ \E p \in Range(db.progress) :
                    /\ p.lesson_id = views[i].id
                    /\ views[i].completed_at = <<p.completed_at>>

====
